---- MODULE Spec2Model ----
(***************************************************************************)
(* Model of the pymyx execution engine: the flow composer (core/flow.py),  *)
(* the execution runner (core/runner.py) and the time filter               *)
(* (core/timefilter.py).  One behaviour is one call of run_flow over a     *)
(* flow file and a filesystem chosen by Init.                              *)
(***************************************************************************)
EXTENDS Integers, Sequences, FiniteSets, TLC

\* ------------------------------------------------------------------ bounds
MaxSteps == 2
MaxDay == 2
MaxFiles == 2

\* ------------------------------------------------------------- time values
SecPerHour == 3600
SecPerDay == 24 * SecPerHour

\* Python's None for an instant; instants are seconds >= 0.
None == -1
NoDate == 0
NoTs == -1
Days == 1..MaxDay

\* datetime.date(): the calendar day (1-based) of an instant in seconds.
date(t) == (t \div SecPerDay) + 1

\* The instants a caller or a flow file may give as a window bound: noon of
\* each day.
WindowInstants == {(d - 1) * SecPerDay + 12 * SecPerHour : d \in Days}
OptInstants == {None} \cup WindowInstants

\* ------------------------------------------------------------------- files
\* A file is its name, cut in parts, its suffix and, for a parquet file, its
\* largest timestamp.  A part is a YYYY-MM-DD day, 0 for text that _DATE_RE
\* does not match, or BadDate for text that _DATE_RE matches and that is no
\* calendar day (2026-13-45).
BadDate == -1
DatedCsv(d) == [parts |-> <<0, d>>, ext |-> "csv", ts |-> NoTs]
UndatedCsv == [parts |-> <<0>>, ext |-> "csv", ts |-> NoTs]
DatedTxt(d) == [parts |-> <<0, d>>, ext |-> "txt", ts |-> NoTs]

\* The files of the directories a flow runs over: their date-shaped parts are
\* calendar days.
Files == {DatedCsv(d) : d \in Days} \cup {UndatedCsv, DatedTxt(1)}

RECURSIVE FirstDate(_)
FirstDate(parts) ==
    IF parts = <<>> THEN NoDate
    ELSE IF Head(parts) # NoDate THEN Head(parts)
    ELSE FirstDate(Tail(parts))

\* The first part that _DATE_RE matches, handed to date.fromisoformat: a day,
\* NoDate when nothing matches, BadDate when fromisoformat raises ValueError.
extract_date_from_filename(f) == FirstDate(f.parts)

\* d lies in [time_from.date(), time_to.date()], a None bound being open.
InDateRange(d, time_from, time_to) ==
    /\ d # NoDate
    /\ ~(time_from # None /\ d < date(time_from))
    /\ ~(time_to # None /\ d > date(time_to))

\* The loop of lines 43-51 over a list of files none of which raises.
RECURSIVE SelectInRange(_, _, _)
SelectInRange(files, time_from, time_to) ==
    IF files = <<>> THEN <<>>
    ELSE (IF InDateRange(extract_date_from_filename(Head(files)), time_from, time_to)
          THEN <<Head(files)>> ELSE <<>>)
         \o SelectInRange(Tail(files), time_from, time_to)

Returned(value) == [raised |-> "none", value |-> value]
Raised(kind) == [raised |-> kind, value |-> <<>>]

\* filter_files_by_date_range over a list: extract_date_from_filename is
\* called for every file, so one name that fromisoformat rejects ends the
\* call with ValueError.
filter_files_by_date_range(files, time_from, time_to) ==
    IF \E k \in DOMAIN files : extract_date_from_filename(files[k]) = BadDate
    THEN Raised("ValueError")
    ELSE Returned(SelectInRange(files, time_from, time_to))

\* ------------------------------------------------------------- directories
Dirs == {"d0", "d1", "d2", "cwd"}
NoOutput == "NoOutput"

Absent == [kind |-> "absent", files |-> {}]
NotDir == [kind |-> "file", files |-> {}]
Dir(files) == [kind |-> "dir", files |-> files]

\* Path.rglob("*") restricted to is_file(): nothing under a missing path or
\* under a path that is a plain file.
FilesUnder(tree) == IF tree.kind = "dir" THEN tree.files ELSE {}

\* out.mkdir(parents=True, exist_ok=True)
mkdir(tree) == IF tree.kind = "absent" THEN Dir({}) ELSE tree

\* "for f in out.rglob('*'): if f.is_file(): f.unlink()"
unlink_all(tree) == IF tree.kind = "dir" THEN Dir({}) ELSE tree

\* _scoped_delete without its upper bound.
scoped_delete_no_upper(tree, time_from, time_to) ==
    IF tree.kind = "dir"
    THEN Dir({f \in tree.files :
                ~InDateRange(extract_date_from_filename(f), time_from, None)})
    ELSE tree

_scoped_delete(tree, time_from, time_to) ==
    IF tree.kind = "dir"
    THEN Dir({f \in tree.files :
                ~InDateRange(extract_date_from_filename(f), time_from, time_to)})
    ELSE tree

\* _build_filtered_input that links the files of every suffix.
build_filtered_input_any_suffix(tree, time_from, time_to) ==
    {f \in FilesUnder(tree) :
        InDateRange(extract_date_from_filename(f), time_from, time_to)}

\* The links of a filtered view: one per .csv/.parquet file of the input tree
\* that filter_files_by_date_range keeps (the view is a directory, so the
\* order of the list is not kept).
_build_filtered_input(tree, time_from, time_to) ==
    {f \in {g \in FilesUnder(tree) : g.ext \in {"csv", "parquet"}} :
        InDateRange(extract_date_from_filename(f), time_from, time_to)}

\* -------------------------------------------------- incremental resolver
SetMax(S) == CHOOSE x \in S : \A y \in S : y <= x

EndOfDay(d) == (d - 1) * SecPerDay + (SecPerDay - 1)

compute_last_timestamp(tree) ==
    LET stamps == {f.ts : f \in {g \in FilesUnder(tree) :
                                    g.ext = "parquet" /\ g.ts # NoTs}}
        dates == {extract_date_from_filename(f) : f \in FilesUnder(tree)} \ {NoDate}
    IN  IF stamps # {} THEN SetMax(stamps)
        ELSE IF dates # {} THEN EndOfDay(SetMax(dates))
        ELSE None

_last_file_date(tree) ==
    LET dates == {extract_date_from_filename(f) : f \in FilesUnder(tree)} \ {NoDate}
    IN  IF dates # {} THEN SetMax(dates) ELSE NoDate

\* A rounding to the hour that goes up.
CeilHour(t) == t + ((SecPerHour - (t % SecPerHour)) % SecPerHour)

\* Line 140: last_output.replace(minute=0, second=0, microsecond=0)
FloorHour(t) == t - (t % SecPerHour)

\* Lines 144-145 without the minimum.
min_window_off(floored, upper) == floored

\* Lines 144-145: "if time_to - time_from < timedelta(hours=1)"
min_window(floored, upper) ==
    IF upper - floored < SecPerHour THEN upper - SecPerHour ELSE floored

UpToDate == [status |-> "uptodate", from |-> None, to |-> None]
Range(a, b) == [status |-> "range", from |-> a, to |-> b]

\* A first-run test that never sees a first run.
first_run_never(last_output) == FALSE

\* Line 123: "if last_output is None"
first_run(last_output) == last_output = None

\* The comparison of line 136 made strict.
up_to_date_strict(last_output, last_input) == last_output > last_input

\* Line 136: "if last_output >= last_input"
up_to_date(last_output, last_input) == last_output >= last_input

resolve_last_range(input_tree, output_tree) ==
    LET last_input == compute_last_timestamp(input_tree)
        last_output == compute_last_timestamp(output_tree)
        has_parquet_input == \E f \in FilesUnder(input_tree) : f.ext = "parquet"
        input_date == _last_file_date(input_tree)
        output_date == _last_file_date(output_tree)
    IN  IF last_input = None THEN Range(None, None)
        ELSE IF first_run(last_output) THEN Range(None, None)
        ELSE IF /\ ~has_parquet_input
                /\ input_date # NoDate /\ output_date # NoDate
                /\ output_date >= input_date
             THEN UpToDate
        ELSE IF up_to_date(last_output, last_input) THEN UpToDate
        ELSE Range(min_window(FloorHour(last_output), last_input), last_input)

\* ---------------------------------------------------------- step selection
NoName == "NoName"
Names(steps) == [k \in 1..Len(steps) |-> steps[k].treatment]
Contains(names, n) == \E k \in 1..Len(names) : names[k] = n

\* list.index(): the first position holding n.
Index(names, n) == CHOOSE k \in 1..Len(names) :
                       names[k] = n /\ \A j \in 1..(k - 1) : names[j] # n

RECURSIVE SelectSeq2(_, _)
SelectSeq2(steps, n) ==
    IF steps = <<>> THEN <<>>
    ELSE IF Head(steps).treatment = n
         THEN <<Head(steps)>> \o SelectSeq2(Tail(steps), n)
         ELSE SelectSeq2(Tail(steps), n)

NotFound == [ok |-> FALSE, steps |-> <<>>]
Found(steps) == [ok |-> TRUE, steps |-> steps]

\* _filter_steps with an exclusive upper end (steps[start:index(to_step)]).
filter_steps_exclusive_end(steps, from_step, to_step, step) ==
    LET names == Names(steps)
    IN  IF step # NoName
        THEN IF ~Contains(names, step) THEN NotFound
             ELSE Found(SelectSeq2(steps, step))
        ELSE IF from_step # NoName /\ ~Contains(names, from_step) THEN NotFound
        ELSE IF to_step # NoName /\ ~Contains(names, to_step) THEN NotFound
        ELSE LET start == IF from_step # NoName THEN Index(names, from_step) ELSE 1
                 end == IF to_step # NoName THEN Index(names, to_step) - 1
                        ELSE Len(steps)
             IN  Found(SubSeq(steps, start, end))

_filter_steps(steps, from_step, to_step, step) ==
    LET names == Names(steps)
    IN  IF step # NoName
        THEN IF ~Contains(names, step) THEN NotFound
             ELSE Found(SelectSeq2(steps, step))
        ELSE IF from_step # NoName /\ ~Contains(names, from_step) THEN NotFound
        ELSE IF to_step # NoName /\ ~Contains(names, to_step) THEN NotFound
        ELSE LET start == IF from_step # NoName THEN Index(names, from_step) ELSE 1
                 end == IF to_step # NoName THEN Index(names, to_step)
                        ELSE Len(steps)
             IN  Found(SubSeq(steps, start, end))
\* -------------------------------------------------------------- parameters
\* A parameter value is its Python type and a payload; Null is None.
Val(kind, v) == [kind |-> kind, v |-> v]
Null == Val("null", 0)

\* One entry of TreatmentSchema.params, in the order of treatment.json.
Decl(name, type, default) == [name |-> name, type |-> type, default |-> default]

\* isinstance(val, TYPE_MAP[type]); bool is a subclass of int.
isinstance(val, type) ==
    \/ val.kind = type /\ type \in {"str", "int", "float", "bool", "list", "dict"}
    \/ val.kind = "bool" /\ type = "int"

\* The keys of the model that begin with "__".
ReservedKeys == {"__k", "__time_range"}
startswith_reserved(k) == k \in ReservedKeys

EmptyDict == <<>>
SetItem(d, k, v) == [j \in DOMAIN d \cup {k} |-> IF j = k THEN v ELSE d[j]]
Update(d, e) == [j \in DOMAIN d \cup DOMAIN e |-> IF j \in DOMAIN e THEN e[j] ELSE d[j]]
DeclaredNames(schema) == {schema[k].name : k \in DOMAIN schema}

MergeFailed(kind) == [error |-> kind, merged |-> EmptyDict]
Merged(d) == [error |-> "ok", merged |-> d]

\* The loop of lines 43-53 taking the schema default before the provided
\* value.
RECURSIVE merge_declared_default_first(_, _, _)
merge_declared_default_first(decls, provided, merged) ==
    IF decls = <<>> THEN Merged(merged)
    ELSE LET param == Head(decls)
             given == param.name \in DOMAIN provided
             val == IF param.default # Null THEN param.default ELSE provided[param.name]
         IN  IF ~given /\ param.default = Null
             THEN MergeFailed("MissingRequiredParam")
             ELSE IF ~isinstance(val, param.type)
             THEN MergeFailed("TypeMismatch")
             ELSE merge_declared_default_first(Tail(decls), provided,
                                               SetItem(merged, param.name, val))

\* The loop of lines 43-53, one declared parameter after the other.
RECURSIVE merge_declared(_, _, _)
merge_declared(decls, provided, merged) ==
    IF decls = <<>> THEN Merged(merged)
    ELSE LET param == Head(decls)
             given == param.name \in DOMAIN provided
             val == IF given THEN provided[param.name] ELSE param.default
         IN  IF ~given /\ param.default = Null
             THEN MergeFailed("MissingRequiredParam")
             ELSE IF ~isinstance(val, param.type)
             THEN MergeFailed("TypeMismatch")
             ELSE merge_declared(Tail(decls), provided, SetItem(merged, param.name, val))

merge_params(schema, provided) ==
    LET declared == merge_declared(schema, provided, EmptyDict)
        framework_keys == [k \in {j \in DOMAIN provided : startswith_reserved(j)} |->
                              provided[k]]
        unknown == (DOMAIN provided \ DeclaredNames(schema)) \ DOMAIN framework_keys
    IN  IF declared.error # "ok" THEN declared
        ELSE IF unknown # {} THEN MergeFailed("UnknownParams")
        ELSE Merged(Update(declared.merged, framework_keys))

\* datetime.isoformat(): the text of an instant.
isoformat(t) == Val("str", t)

\* Lines 106-111: the parameters handed to merge_params.
effective_params(params, tf, tt) ==
    IF tf # None \/ tt # None
    THEN SetItem(params, "__time_range",
                 Val("dict", [from |-> IF tf # None THEN isoformat(tf) ELSE Null,
                              to |-> IF tt # None THEN isoformat(tt) ELSE Null]))
    ELSE params

\* ------------------------------------------------------------------- flows
\* The steps a flow file may declare.  A step without an "output" key is run
\* with output_dir "" (s.get("output", "")), the current directory.
StepSpecs ==
    { [treatment |-> "a", input |-> "d0", output |-> "d1"],
      [treatment |-> "b", input |-> "d1", output |-> "d2"],
      [treatment |-> "c", input |-> "d1", output |-> NoOutput] }

RECURSIVE SeqsUpTo(_, _)
SeqsUpTo(S, n) ==
    IF n = 0 THEN {<<>>}
    ELSE LET shorter == SeqsUpTo(S, n - 1)
         IN  shorter \cup {Append(q, x) : q \in shorter, x \in S}

Flows == SeqsUpTo(StepSpecs, MaxSteps) \ {<<>>}

\* The names a caller may select by; "zz" is in no flow.
StepNames == {"a", "b", "zz"}
OutputModes == {"append", "replace", "full-replace"}

OutputDir(s) == IF s.output = NoOutput THEN "cwd" ELSE s.output

\* The filesystems a run may start from.
InitFs ==
    { t \in [Dirs -> {Absent, NotDir, Dir(Files), Dir({DatedCsv(1)})}] :
        /\ t["d0"] \in {Absent, NotDir, Dir(Files)}
        /\ t["d1"] \in {Absent, Dir(Files), Dir({DatedCsv(1)})}
        /\ t["d0"] = Absent => t["d1"] = Absent
        /\ t["d0"] = NotDir => t["d1"] = Dir(Files)
        /\ t["d2"] = Dir(Files)
        /\ t["cwd"] = Dir(Files) }

\* ------------------------------------------------------------------- state
VARIABLES
    flow,          \* the steps the flow file declares
    fs,            \* the directory trees
    call,          \* the arguments of the run_flow call
    pc,            \* where control is
    steps,         \* run_flow: the selected steps
    i,             \* run_flow: position of the current step in steps (1-based)
    output_mode,   \* run_flow: the mode handed to run_treatment
    time_from,     \* the window handed to run_treatment
    time_to,
    tmpdirs,       \* the filtered views that exist on disk
    filtered_dir,  \* run_treatment: its filtered view, or NoView
    log,           \* pymyx.log, one record per line
    hist,          \* what the engine did, in order
    err,           \* the exception that ended the call, or NoError
    failed_at,     \* the step run_flow reported as failed
    fs0,           \* fs when run_flow was called
    fs_rt,         \* fs when the current run_treatment was called
    schema,        \* treatment.json of the treatments: the declared parameters
    params,        \* the parameters run_flow hands to run_treatment
    merged,        \* run_treatment: what merge_params returned
    plugin_call,   \* the arguments of the latest call of a plugin's run
    fn_in,         \* the arguments of a direct call of a timefilter function
    fn_out         \* what that call returned

vars == <<flow, fs, call, pc, steps, i, output_mode, time_from, time_to,
          tmpdirs, filtered_dir, log, hist, err, failed_at, fs0, fs_rt,
          schema, params, merged, plugin_call, fn_in, fn_out>>

\* The run_flow calls: a single step or a range is named (the caller checks
\* that the two are not mixed), and a window bound comes from the caller or,
\* when the caller gives none, from the flow file.
Selection(step, from_step, to_step) ==
    [step |-> step, from_step |-> from_step, to_step |-> to_step]

AllSelections ==
    {Selection(n, NoName, NoName) : n \in StepNames}
    \cup {Selection(NoName, a, b) :
            a \in {NoName} \cup StepNames, b \in {NoName, "a", "b"}}

\* --last excludes caller-given bounds (checked by the caller).
CallsOver(selections, instants) ==
    { c \in [sel : selections, output_mode : OutputModes, last : BOOLEAN,
             time_from : instants, time_to : instants] :
        c.last => (c.time_from = None /\ c.time_to = None) }

NoStep == [pos |-> 0, treatment |-> NoName]
NoError == "NoError"
NoView == [owner |-> 0, links |-> {}]
NoCall == [pos |-> 0, input |-> [dir |-> NoName, view |-> NoView], params |-> EmptyDict]
NoFn == [fn |-> "none"]

\* A schema with one required and one defaulted parameter, parameters that
\* it accepts and parameters that it rejects.
SchemaXY == <<Decl("x", "int", Null), Decl("y", "str", Val("str", 1))>>
ParamsOk == SetItem(EmptyDict, "x", Val("int", 1))
ParamsUnknown == SetItem(ParamsOk, "u", Val("int", 1))

\* The engine before a run_flow call.
EngineInit(flows, calls, trees, schemas, provided) ==
    /\ flow \in flows
    /\ fs \in trees
    /\ call \in calls
    /\ schema \in schemas
    /\ params \in provided
    /\ merged = EmptyDict
    /\ plugin_call = NoCall
    /\ pc = "idle"
    /\ steps = <<>>
    /\ i = 0
    /\ output_mode = "append"
    /\ time_from = None
    /\ time_to = None
    /\ tmpdirs = {}
    /\ filtered_dir = NoView
    /\ log = <<>>
    /\ hist = <<>>
    /\ err = NoError
    /\ failed_at = NoStep
    /\ fs0 = fs
    /\ fs_rt = fs

InitOver(flows, calls, trees, schemas, provided) ==
    /\ EngineInit(flows, calls, trees, schemas, provided)
    /\ fn_in = NoFn
    /\ fn_out = NoFn

\* Every filesystem and window, under a few selections.
Init ==
    InitOver(Flows,
             CallsOver({Selection(NoName, NoName, NoName),
                        Selection(NoName, "b", NoName),
                        Selection("b", NoName, NoName),
                        Selection("zz", NoName, NoName)}, OptInstants),
             InitFs, {SchemaXY}, {ParamsOk, ParamsUnknown})

\* Every selection, over the filesystem in which every directory is full.
InitSelect ==
    InitOver(Flows,
             CallsOver(AllSelections, {None, (MaxDay - 1) * SecPerDay + 12 * SecPerHour}),
             {[d \in Dirs |-> Dir(Files)]}, {SchemaXY}, {ParamsOk})

\* ---------------------------------------------------------------- run_flow
Event(pos, ev) == [pos |-> pos, ev |-> ev]

\* "full-replace: wipe all output directories before running"
full_replace_wipe(tree_of, selected) ==
    [d \in Dirs |->
        IF \E k \in 1..Len(selected) :
              selected[k].output # NoOutput /\ selected[k].output = d
        THEN unlink_all(tree_of[d])
        ELSE tree_of[d]]

\* A --last resolution that looks at the last selected step.
last_selected(selected) == selected[Len(selected)]

\* Line 128: "first = steps[0]"
first_selected(selected) == selected[1]

\* A --last resolution that reads the directories as they were before the
\* full-replace wipe.
resolve_first_before_wipe(before, after, first) ==
    resolve_last_range(before[first.input], before[first.output])

\* Lines 129-132: resolve_last_range on the first step's directories, as
\* they are after the wipe of lines 112-124.
resolve_first(before, after, first) ==
    resolve_last_range(after[first.input], after[first.output])

\* run_flow from its step selection to its loop: the selection, the
\* full-replace wipe and the resolution of --last.  call.time_from and
\* call.time_to are the effective window of lines 79-82, params the
\* parameters of a step after line 94 (both computed by run_flow_head).
RunFlow ==
    /\ pc = "idle"
    /\ LET sel == _filter_steps(flow, call.sel.from_step, call.sel.to_step,
                                call.sel.step)
           wiped == IF call.output_mode = "full-replace"
                    THEN full_replace_wipe(fs, sel.steps)
                    ELSE fs
           mode == IF call.output_mode = "full-replace" THEN "replace"
                   ELSE call.output_mode
           first == first_selected(sel.steps)
           range == resolve_first(fs, wiped, first)
       IN  IF ~sel.ok
           THEN /\ pc' = "raised"
                /\ err' = "StepNotFound"
                /\ UNCHANGED <<fs, steps, i, output_mode, time_from, time_to, hist>>
           ELSE /\ steps' = sel.steps
                /\ output_mode' = mode
                /\ fs' = wiped
                /\ hist' = IF call.output_mode = "full-replace"
                           THEN Append(hist, Event(0, "wipe")) ELSE hist
                /\ IF ~call.last
                   THEN /\ time_from' = call.time_from
                        /\ time_to' = call.time_to
                        /\ pc' = "loop"
                        /\ i' = 1
                        /\ err' = NoError
                   ELSE IF sel.steps = <<>>
                   THEN /\ pc' = "raised"
                        /\ err' = "IndexError"
                        /\ UNCHANGED <<i, time_from, time_to>>
                   ELSE IF first.output = NoOutput
                   THEN /\ pc' = "raised"
                        /\ err' = "KeyError"
                        /\ UNCHANGED <<i, time_from, time_to>>
                   ELSE IF range.status = "uptodate"
                   THEN /\ pc' = "uptodate"
                        /\ UNCHANGED <<i, time_from, time_to, err>>
                   ELSE /\ time_from' = range.from
                        /\ time_to' = range.to
                        /\ pc' = "loop"
                        /\ i' = 1
                        /\ err' = NoError
    /\ UNCHANGED <<flow, call, tmpdirs, filtered_dir, log, failed_at, fs0, fs_rt,
                   schema, params, merged, plugin_call, fn_in, fn_out>>

\* The loop of run_flow: call run_treatment for the next selected step, or
\* report completion.
NextStep ==
    /\ pc = "loop"
    /\ IF i <= Len(steps)
       THEN /\ pc' = "validate"
            /\ fs_rt' = fs
            /\ hist' = Append(hist, Event(i, "call"))
       ELSE /\ pc' = "done"
            /\ UNCHANGED <<fs_rt, hist>>
    /\ UNCHANGED <<flow, fs, call, steps, i, output_mode, time_from, time_to,
                   tmpdirs, filtered_dir, log, err, failed_at, fs0,
                   schema, params, merged, plugin_call, fn_in, fn_out>>
\* ----------------------------------------------------------- run_treatment
cur == steps[i]
has_window == time_from # None \/ time_to # None

LogEntry(status) ==
    [treatment |-> cur.treatment, status |-> status,
     input_dir |-> cur.input, output_dir |-> OutputDir(cur), error |-> NoError]

\* An error record written without the failure message.
error_record_no_message(message) == LogEntry("error")

\* Line 159: log_event(name, "error", ..., error=str(exc))
error_record(message) == [LogEntry("error") EXCEPT !.error = message]

\* An except clause that reports the failure and lets run_flow fall through
\* to its completion message.
raise_then_complete(kind) ==
    /\ pc' = "done"
    /\ err' = kind
    /\ failed_at' = [pos |-> i, treatment |-> cur.treatment]

\* run_treatment raises kind; run_flow catches it, reports the step and exits.
Raise(kind) ==
    /\ pc' = "failed"
    /\ err' = kind
    /\ failed_at' = [pos |-> i, treatment |-> cur.treatment]

\* What resolve_treatment_dir and load_treatment may answer.
Validations == {"ok", "MissingTreatment", "ConfigError"}

validate_input_dir(tree) ==
    IF tree.kind = "absent" THEN "InputNotFound"
    ELSE IF tree.kind = "file" THEN "NotADirectory"
    ELSE "ok"

\* RT_Validate with the output directory created before the checks.
validate_after_mkdir ==
    /\ pc = "validate"
    /\ fs' = [fs EXCEPT ![OutputDir(cur)] = mkdir(@)]
    /\ \E v \in Validations :
         LET m == merge_params(schema, effective_params(params, time_from, time_to))
             res == IF v # "ok" THEN v
                    ELSE IF m.error # "ok" THEN m.error
                    ELSE validate_input_dir(fs[cur.input])
         IN  IF res # "ok"
             THEN /\ Raise(res)
                  /\ UNCHANGED merged
             ELSE /\ pc' = "prepare"
                  /\ merged' = m.merged
                  /\ UNCHANGED <<err, failed_at>>
    /\ UNCHANGED <<flow, call, steps, i, output_mode, time_from, time_to,
                   tmpdirs, filtered_dir, log, hist, fs0, fs_rt,
                   schema, params, plugin_call, fn_in, fn_out>>

\* Lines 102-114: resolve the treatment, load its schema, add __time_range,
\* merge the parameters, validate the input path.
RT_Validate ==
    /\ pc = "validate"
    /\ \E v \in Validations :
         LET m == merge_params(schema, effective_params(params, time_from, time_to))
             res == IF v # "ok" THEN v
                    ELSE IF m.error # "ok" THEN m.error
                    ELSE validate_input_dir(fs[cur.input])
         IN  IF res # "ok"
             THEN /\ Raise(res)
                  /\ UNCHANGED merged
             ELSE /\ pc' = "prepare"
                  /\ merged' = m.merged
                  /\ UNCHANGED <<err, failed_at>>
    /\ UNCHANGED <<flow, fs, call, steps, i, output_mode, time_from, time_to,
                   tmpdirs, filtered_dir, log, hist, fs0, fs_rt,
                   schema, params, plugin_call, fn_in, fn_out>>

\* reconcile that deletes in every output mode.
reconcile_every_mode(tree, mode, tf, tt) ==
    IF tf # None \/ tt # None
    THEN _scoped_delete(tree, tf, tt)
    ELSE unlink_all(tree)

\* reconcile that takes the scoped branch whether or not a window is given.
reconcile_always_scoped(tree, mode, tf, tt) ==
    IF mode = "replace" THEN _scoped_delete(tree, tf, tt) ELSE tree

\* Lines 119-126: the reconcile of replace mode.
reconcile(tree, mode, tf, tt) ==
    IF mode = "replace"
    THEN IF tf # None \/ tt # None
         THEN _scoped_delete(tree, tf, tt)
         ELSE unlink_all(tree)
    ELSE tree

\* An output preparation that leaves the reconcile out.
prepare_output_mkdir_only(tree, mode, tf, tt) == mkdir(tree)

\* Lines 116-126: create the output directory, then reconcile it.
prepare_output(tree, mode, tf, tt) == reconcile(mkdir(tree), mode, tf, tt)

RT_Prepare ==
    /\ pc = "prepare"
    /\ fs' = [fs EXCEPT ![OutputDir(cur)] =
                 prepare_output(@, output_mode, time_from, time_to)]
    /\ hist' = Append(hist, Event(i, "reconcile"))
    /\ pc' = "view"
    /\ UNCHANGED <<flow, call, steps, i, output_mode, time_from, time_to,
                   tmpdirs, filtered_dir, log, err, failed_at, fs0, fs_rt,
                   schema, params, merged, plugin_call, fn_in, fn_out>>

View(links) == [owner |-> i, links |-> links]

\* An emptiness test that never finds the view empty.
view_never_empty(view) == FALSE

\* "not any(filtered_dir.rglob('*'))"
view_is_empty(view) == view.links = {}

\* _cleanup_tmpdir that removes nothing.
cleanup_tmpdir_noop(dirs, view) == dirs

\* _cleanup_tmpdir
cleanup_tmpdir(dirs, view) == dirs \ {view}

\* Lines 128-141: build the filtered view; an empty view is logged as skip
\* and the call returns.  log_event may fail (the log cannot be written).
RT_BuildView ==
    /\ pc = "view"
    /\ IF ~has_window
       THEN /\ pc' = "load"
            /\ UNCHANGED <<tmpdirs, filtered_dir, log, hist, i, err, failed_at>>
       ELSE LET view == View(_build_filtered_input(fs[cur.input], time_from, time_to))
            IN  IF view_is_empty(view)
                THEN \E log_ok \in BOOLEAN :
                       IF log_ok
                       THEN /\ log' = Append(log, LogEntry("skip"))
                            /\ tmpdirs' = cleanup_tmpdir(tmpdirs \cup {view}, view)
                            /\ hist' = hist \o <<Event(i, "view"), Event(i, "skip"),
                                                 Event(i, "cleanup")>>
                            /\ filtered_dir' = NoView
                            /\ pc' = "loop"
                            /\ i' = i + 1
                            /\ UNCHANGED <<err, failed_at>>
                       ELSE /\ tmpdirs' = tmpdirs \cup {view}
                            /\ hist' = Append(hist, Event(i, "view"))
                            /\ filtered_dir' = view
                            /\ Raise("LogWriteError")
                            /\ UNCHANGED <<log, i>>
                ELSE /\ tmpdirs' = tmpdirs \cup {view}
                     /\ filtered_dir' = view
                     /\ hist' = Append(hist, Event(i, "view"))
                     /\ pc' = "load"
                     /\ UNCHANGED <<log, i, err, failed_at>>
    /\ UNCHANGED <<flow, fs, call, steps, output_mode, time_from, time_to,
                   fs0, fs_rt, schema, params, merged, plugin_call, fn_in, fn_out>>

\* RT_Load that writes an error record when the module cannot be loaded.
load_logs_error ==
    /\ pc = "load"
    /\ \E loaded \in BOOLEAN :
         IF loaded
         THEN /\ pc' = "start"
              /\ UNCHANGED <<err, failed_at, log>>
         ELSE /\ Raise("ModuleLoadError")
              /\ log' = Append(log, error_record("ModuleLoadError"))
    /\ UNCHANGED <<flow, fs, call, steps, i, output_mode, time_from, time_to,
                   tmpdirs, filtered_dir, hist, fs0, fs_rt,
                   schema, params, merged, plugin_call, fn_in, fn_out>>

\* Line 143: load_run_module; run.py may be missing, fail to execute or lack
\* a run function.
RT_Load ==
    /\ pc = "load"
    /\ \E loaded \in BOOLEAN :
         IF loaded
         THEN /\ pc' = "start"
              /\ UNCHANGED <<err, failed_at>>
         ELSE Raise("ModuleLoadError")
    /\ UNCHANGED <<flow, fs, call, steps, i, output_mode, time_from, time_to,
                   tmpdirs, filtered_dir, log, hist, fs0, fs_rt,
                   schema, params, merged, plugin_call, fn_in, fn_out>>

\* Lines 145-151: the start record.
RT_Start ==
    /\ pc = "start"
    /\ \E log_ok \in BOOLEAN :
         IF log_ok
         THEN /\ log' = Append(log, LogEntry("start"))
              /\ hist' = Append(hist, Event(i, "start"))
              /\ pc' = "invoke"
              /\ UNCHANGED <<err, failed_at>>
         ELSE /\ Raise("LogWriteError")
              /\ UNCHANGED <<log, hist>>
    /\ UNCHANGED <<flow, fs, call, steps, i, output_mode, time_from, time_to,
                   tmpdirs, filtered_dir, fs0, fs_rt,
                   schema, params, merged, plugin_call, fn_in, fn_out>>

\* What a plugin may write into its output directory during one run: nothing,
\* a file without a date, or a file of the first day.
PluginWrites == {{}, {UndatedCsv}, {DatedCsv(1)}}

\* Lines 129-141: the plugin reads the filtered view when there is one, the
\* input directory otherwise.
effective_input ==
    IF filtered_dir # NoView
    THEN [dir |-> NoName, view |-> filtered_dir]
    ELSE [dir |-> cur.input, view |-> NoView]

\* The finally clause of lines 161-163.
finally_cleanup(dirs, view) == IF view # NoView THEN cleanup_tmpdir(dirs, view) ELSE dirs

\* Lines 152-163: the plugin runs, its outcome is logged, the view is removed.
\* A success record that cannot be written raises inside the try block, so the
\* except clause tries an error record and re-raises.
RT_Invoke ==
    /\ pc = "invoke"
    /\ plugin_call' = [pos |-> i, input |-> effective_input, params |-> merged]
    /\ \E written \in PluginWrites, returned \in BOOLEAN, log_ok \in BOOLEAN :
         /\ fs' = [fs EXCEPT ![OutputDir(cur)] = Dir(@.files \cup written)]
         /\ tmpdirs' = finally_cleanup(tmpdirs, filtered_dir)
         /\ filtered_dir' = NoView
         /\ IF returned /\ log_ok
            THEN /\ log' = Append(log, LogEntry("success"))
                 /\ hist' = hist \o <<Event(i, "invoke"), Event(i, "success"),
                                      Event(i, "cleanup")>>
                 /\ pc' = "loop"
                 /\ i' = i + 1
                 /\ UNCHANGED <<err, failed_at>>
            ELSE /\ log' = IF log_ok THEN Append(log, error_record("PluginError")) ELSE log
                 /\ hist' = hist \o <<Event(i, "invoke"), Event(i, "error"),
                                      Event(i, "cleanup")>>
                 /\ Raise(IF returned THEN "LogWriteError" ELSE "PluginError")
                 /\ UNCHANGED i
    /\ UNCHANGED <<flow, call, steps, output_mode, time_from, time_to, fs0, fs_rt,
                   schema, params, merged, fn_in, fn_out>>

Next ==
    \/ RunFlow
    \/ NextStep
    \/ RT_Validate
    \/ RT_Prepare
    \/ RT_BuildView
    \/ RT_Load
    \/ RT_Start
    \/ RT_Invoke

Spec == Init /\ [][Next]_vars

SpecSelect == InitSelect /\ [][Next]_vars
\* ------------------------------------------------ schemas and parameters
\* The declarations a treatment.json may hold: x as int or float, y as str,
\* each with or without a default, and a name that carries the reserved
\* prefix.
DeclsX == {Decl("x", t, d) : t \in {"int", "float"}, d \in {Null, Val("int", 2)}}
DeclsY == {Decl("y", "str", d) : d \in {Null, Val("str", 2)}}
Schemas ==
    {<<>>, <<Decl("__k", "int", Null)>>}
    \cup {<<dx>> : dx \in DeclsX} \cup {<<dy>> : dy \in DeclsY}
    \cup {<<dx, dy>> : dx \in DeclsX, dy \in DeclsY}
    \cup {<<dy, dx>> : dx \in DeclsX, dy \in DeclsY}

\* The parameters a caller may give: a value for x, for y, for a name that no
\* schema declares, and for reserved names.
KeyValues ==
    [x |-> {Val("int", 1), Val("bool", 1), Val("str", 1)},
     y |-> {Val("str", 1)},
     u |-> {Val("int", 1)},
     __k |-> {Val("str", 1)},
     __time_range |-> {Val("str", 1)}]
Provided ==
    UNION {{d \in [keys -> UNION {KeyValues[k] : k \in keys}] :
               \A k \in keys : d[k] \in KeyValues[k]} : keys \in SUBSET DOMAIN KeyValues}

\* One step over full directories, every schema, every parameter mapping,
\* with and without a window.
InitParams ==
    /\ InitOver({<<[treatment |-> "a", input |-> "d0", output |-> "d1"]>>},
                CallsOver({Selection(NoName, NoName, NoName)},
                          {None, 12 * SecPerHour}),
                {[d \in Dirs |-> Dir(Files)]}, Schemas, Provided)
    /\ call.output_mode = "append"
    /\ ~call.last

SpecParams == InitParams /\ [][Next]_vars

\* ------------------------------------------- direct calls of the timefilter
\* The engine variables of a behaviour that runs no flow.
engine_vars == <<flow, fs, call, pc, steps, i, output_mode, time_from, time_to,
                 tmpdirs, filtered_dir, log, hist, err, failed_at, fs0, fs_rt,
                 schema, params, merged, plugin_call>>

NoEngine ==
    EngineInit({<<>>},
               CallsOver({Selection(NoName, NoName, NoName)}, {None}),
               {[d \in Dirs |-> Absent]}, {<<>>}, {EmptyDict})
    /\ call.output_mode = "append"
    /\ ~call.last

\* File names for filter_files_by_date_range: one date, no date, two dates
\* (the first one counts), a date-shaped text that is no calendar day, alone
\* or after a day.
TwoDatesCsv == [parts |-> <<1, MaxDay>>, ext |-> "csv", ts |-> NoTs]
BadDateCsv == [parts |-> <<0, BadDate>>, ext |-> "csv", ts |-> NoTs]
DayThenBadCsv == [parts |-> <<MaxDay, BadDate>>, ext |-> "csv", ts |-> NoTs]
FilterNames ==
    {DatedCsv(d) : d \in Days} \cup {UndatedCsv, TwoDatesCsv, BadDateCsv, DayThenBadCsv}

\* Window bounds at the first and the last second of each day.
FilterInstants ==
    {None} \cup {(d - 1) * SecPerDay : d \in Days} \cup {EndOfDay(d) : d \in Days}

InitFilter ==
    /\ NoEngine
    /\ fn_in \in [fn : {"filter_files_by_date_range"},
                   files : SeqsUpTo(FilterNames, MaxFiles),
                   time_from : FilterInstants,
                   time_to : FilterInstants]
    /\ fn_out = NoFn

\* filter_files_by_date_range(files, time_from, time_to)
CallFilter ==
    /\ fn_in.fn = "filter_files_by_date_range"
    /\ fn_out = NoFn
    /\ fn_out' = [fn |-> fn_in.fn,
                  result |-> filter_files_by_date_range(fn_in.files, fn_in.time_from,
                                                        fn_in.time_to)]
    /\ UNCHANGED <<engine_vars, fn_in>>

NextFilter == CallFilter

SpecFilter == InitFilter /\ [][NextFilter]_vars

\* Files for resolve_last_range: .csv files with and without a day in their
\* name, parquet files whose timestamp column has a largest value, parquet
\* files without a timestamp column or without a row (a column of null
\* values only is not among them).
Parquet(t) == [parts |-> <<0, date(t)>>, ext |-> "parquet", ts |-> t]
ParquetNoTs(parts) == [parts |-> parts, ext |-> "parquet", ts |-> NoTs]
ResolveStamps ==
    {(d - 1) * SecPerDay + 10 * 60 : d \in Days}
    \cup {(d - 1) * SecPerDay + 50 * 60 : d \in Days}
ResolveFiles ==
    {DatedCsv(d) : d \in Days} \cup {UndatedCsv}
    \cup {Parquet(t) : t \in ResolveStamps}
    \cup {ParquetNoTs(<<0, d>>) : d \in Days} \cup {ParquetNoTs(<<0>>)}

\* The directories resolve_last_range may be given: missing, or holding up
\* to MaxFiles files.
ResolveTrees ==
    {Absent} \cup {Dir(S) : S \in {T \in SUBSET ResolveFiles : Cardinality(T) <= MaxFiles}}

InitResolve ==
    /\ NoEngine
    /\ fn_in \in [fn : {"resolve_last_range"},
                   input_dir : ResolveTrees,
                   output_dir : ResolveTrees]
    /\ fn_out = NoFn

\* resolve_last_range(input_dir, output_dir)
CallResolve ==
    /\ fn_in.fn = "resolve_last_range"
    /\ fn_out = NoFn
    /\ fn_out' = [fn |-> fn_in.fn,
                  result |-> resolve_last_range(fn_in.input_dir, fn_in.output_dir)]
    /\ UNCHANGED <<engine_vars, fn_in>>

NextResolve == CallResolve

SpecResolve == InitResolve /\ [][NextResolve]_vars

\* --------------------------------------- main and the head of run_flow
\* An ISO 8601 text: a local time and its UTC offset, in seconds.
Iso(local, offset) == [kind |-> "str", v |-> local, tz |-> offset]

\* parse_iso_utc: the instant, in UTC, that the text names.
parse_iso_utc(s) == s.v - s.tz

\* An option that was not given (argparse default=None).
NoText == [kind |-> "none", v |-> 0, tz |-> 0]

\* "parse_iso_utc(x) if x else None"
parse_opt(s) == IF s = NoText THEN None ELSE parse_iso_utc(s)

\* Lines 72-76: the flow's params, with a top-level from/to added when
\* params does not hold that key.
flow_params(doc) ==
    [k \in DOMAIN doc.params \cup (DOMAIN doc.top \cap {"from", "to"}) |->
        IF k \in DOMAIN doc.params THEN doc.params[k] ELSE doc.top[k]]

\* Lines 79-82: a bound the caller gave wins over the flow's.
effective_bound(given, fp, key) ==
    IF given = None /\ key \in DOMAIN fp THEN parse_iso_utc(fp[key]) ELSE given

_META_PARAMS == {"from", "to"}

\* An inheritance that keeps the meta-params.
inherited_keeps_meta(fp) == fp

\* Line 85: "flow params minus meta-params"
inherited(fp) == [k \in DOMAIN fp \ _META_PARAMS |-> fp[k]]

\* Line 94: {**inherited, **s.get("params", {})}
step_params(inh, own) == Update(inh, own)

\* run_flow from line 72 to line 94: the effective window and the params of
\* every step; a flow without steps raises ValueError.
run_flow_head(doc, time_from_, time_to_, last) ==
    LET fp == flow_params(doc)
        tf == effective_bound(time_from_, fp, "from")
        tt == effective_bound(time_to_, fp, "to")
        inh == inherited(fp)
    IN  IF doc.steps = <<>>
        THEN [status |-> "ValueError", last |-> last, time_from |-> None,
              time_to |-> None, params |-> <<>>]
        ELSE [status |-> "run", last |-> last, time_from |-> tf, time_to |-> tt,
              params |-> [k \in 1..Len(doc.steps) |-> step_params(inh, doc.steps[k])]]

UsageError ==
    [status |-> "usage", last |-> FALSE, time_from |-> None, time_to |-> None,
     params |-> <<>>]

\* main of flow.py: --last excludes --from/--to, --from must not be after
\* --to, then run_flow is called.
flow_main(args, doc) ==
    IF args.last /\ (args.time_from # NoText \/ args.time_to # NoText) THEN UsageError
    ELSE LET tf == parse_opt(args.time_from)
             tt == parse_opt(args.time_to)
         IN  IF tf # None /\ tt # None /\ tf > tt THEN UsageError
             ELSE run_flow_head(doc, tf, tt, args.last)

\* The texts --from and --to may carry, and the bounds a flow may declare:
\* noon of each day in UTC, and noon of the last day written with an offset.
NoonIso == {Iso(t, 0) : t \in WindowInstants}
OffsetNoonIso == Iso((MaxDay - 1) * SecPerDay + 13 * SecPerHour, SecPerHour)

\* The mappings over keys, the value of key k drawn from values[k].
RECURSIVE DictsOver(_, _)
DictsOver(keys, values) ==
    IF keys = {} THEN {EmptyDict}
    ELSE LET k == CHOOSE x \in keys : TRUE
             rest == DictsOver(keys \ {k}, values)
         IN  rest \cup {SetItem(d, k, v) : d \in rest, v \in values[k]}

\* The flow documents: params with from, to and x, a top-level from and to,
\* and up to MaxSteps steps whose own params may hold x and from.
FlowDocs ==
    [params : DictsOver({"from", "to", "x"},
                        [from |-> NoonIso, to |-> NoonIso, x |-> {Val("int", 1)}]),
     top : DictsOver({"from", "to"},
                     [from |-> {OffsetNoonIso}, to |-> {Iso(12 * SecPerHour, 0)}]),
     steps : SeqsUpTo(DictsOver({"x", "from"},
                                [x |-> {Val("int", 2)}, from |-> {Val("int", 3)}]),
                      MaxSteps)]

InitFlowMain ==
    /\ NoEngine
    /\ fn_in \in [fn : {"main"},
                   args : [time_from : {NoText} \cup NoonIso,
                           time_to : {NoText} \cup NoonIso,
                           last : BOOLEAN],
                   flow : FlowDocs]
    /\ fn_out = NoFn

\* python -m pymyx.core.flow --flow ... [--from ...] [--to ...] [--last]
CallFlowMain ==
    /\ fn_in.fn = "main"
    /\ fn_out = NoFn
    /\ fn_out' = [fn |-> fn_in.fn, result |-> flow_main(fn_in.args, fn_in.flow)]
    /\ UNCHANGED <<engine_vars, fn_in>>

NextFlowMain == CallFlowMain

SpecFlowMain == InitFlowMain /\ [][NextFlowMain]_vars

\* ------------------------------------------------------------------ claims
\* Control is outside run_treatment: before the first step, between two
\* steps, or after run_flow ended.
OutsideRunner == pc \in {"idle", "loop", "done", "failed", "uptodate", "raised"}

\* Control is in run_treatment, after the output was prepared and before the
\* plugin is invoked.
BeforeInvoke == pc \in {"view", "load", "start", "invoke"}

HistHas(pos, ev) == \E k \in DOMAIN hist : hist[k] = Event(pos, ev)

\* C1: every filtered view that run_treatment creates no longer exists when
\* that invocation ends, on every exit path (success, skip, plugin failure,
\* and any failure raised after the view was built).
C1_ViewReleasedOnEveryExit == OutsideRunner => tmpdirs = {}

\* The errors of the validation phase: step names, treatment resolution,
\* schema, parameters, input path.
RunnerValidationErrors ==
    {"MissingTreatment", "ConfigError", "MissingRequiredParam", "TypeMismatch",
     "UnknownParams", "InputNotFound", "NotADirectory"}
ValidationErrors == RunnerValidationErrors \cup {"StepNotFound"}

\* The engine has neither created a directory nor removed a file since
\* run_flow was called (a plugin only adds files to an existing directory).
NoOutputMutation ==
    \A d \in Dirs :
        /\ fs[d].kind = fs0[d].kind
        /\ FilesUnder(fs0[d]) \subseteq FilesUnder(fs[d])

\* C2: a run_flow call that ends with a validation error has performed no
\* output mutation at all (no full-replace wipe, no reconcile deletion, no
\* output directory creation), in every output mode.
C2_ValidationErrorLeavesOutputs ==
    (pc \in {"failed", "raised"} /\ err \in ValidationErrors) => NoOutputMutation

\* C3: when treatment resolution, schema loading, parameter validation or the
\* input path check fails, run_treatment raises before the output directory
\* is created, before any output file is deleted and before any filtered
\* view is built.
C3_ValidationBeforeMutation ==
    (pc = "failed" /\ err \in RunnerValidationErrors) =>
        /\ fs = fs_rt
        /\ \A v \in tmpdirs : v.owner # i
        /\ filtered_dir = NoView
        /\ hist[Len(hist)] = Event(i, "call")

\* A replace run with a window fails on a missing input path while its
\* output directory does not exist yet.
C3_Witness ==
    /\ pc = "failed"
    /\ err = "InputNotFound"
    /\ output_mode = "replace"
    /\ has_window
    /\ fs[OutputDir(cur)].kind = "absent"
Count(pos, ev) == Cardinality({k \in DOMAIN hist : hist[k] = Event(pos, ev)})

\* sub is seq with some of its elements left out.
RECURSIVE IsSubsequence(_, _)
IsSubsequence(sub, seq) ==
    IF sub = <<>> THEN TRUE
    ELSE IF seq = <<>> THEN FALSE
    ELSE IF Head(sub) = Head(seq) THEN IsSubsequence(Tail(sub), Tail(seq))
    ELSE IsSubsequence(sub, Tail(seq))

\* C4: each selected step's plugin is invoked at most once, the steps are
\* taken in declared order, and everything belonging to step i (reconcile,
\* view, plugin call, log records, view cleanup) is over before anything
\* belonging to step i+1 begins.
C4_StrictlySequential ==
    /\ \A p \in 1..Len(steps) : Count(p, "invoke") <= 1 /\ Count(p, "call") <= 1
    /\ \A k \in 1..(Len(hist) - 1) : hist[k].pos <= hist[k + 1].pos
    /\ \A k \in DOMAIN hist : hist[k].pos <= Len(steps)
    /\ pc = "invoke" => IsSubsequence(SubSeq(steps, 1, i), flow)
    /\ ~OutsideRunner => \A v \in tmpdirs : v.owner = i
    /\ (pc = "validate" /\ i > 1) =>
          /\ tmpdirs = {}
          /\ HistHas(i - 1, "success") \/ HistHas(i - 1, "skip")
          /\ hist[Len(hist) - 1] = Event(i - 1, "cleanup")

\* A flow of two steps ran to completion with a window: both plugins were
\* invoked over a filtered view.
C4_Witness ==
    /\ pc = "done"
    /\ Len(steps) = 2
    /\ has_window
    /\ HistHas(1, "view") /\ HistHas(1, "invoke")
    /\ HistHas(2, "view") /\ HistHas(2, "invoke")

\* C5: when the Runner raises for a step, no later selected step is
\* reconciled, invoked or logged, run_flow ends with a failure that reports
\* the failing step's position and treatment name, and the flow never reports
\* successful completion after a failed step.
C5_FailureAbortsFlow ==
    /\ pc = "failed" =>
          /\ err # NoError
          /\ i \in 1..Len(steps)
          /\ failed_at = [pos |-> i, treatment |-> steps[i].treatment]
          /\ \A k \in DOMAIN hist : hist[k].pos <= i
          /\ \A k \in DOMAIN log :
                \E p \in 1..i : log[k].treatment = steps[p].treatment
    /\ pc = "done" =>
          /\ err = NoError
          /\ failed_at = NoStep
          /\ \A p \in 1..Len(steps) :
                /\ HistHas(p, "success") \/ HistHas(p, "skip")
                /\ ~HistHas(p, "error")

\* The plugin of the first of two selected steps raised: the second step was
\* never called.
C5_Witness ==
    /\ pc = "failed"
    /\ err = "PluginError"
    /\ i = 1
    /\ Len(steps) = 2
    /\ steps[2].treatment # steps[1].treatment
    /\ log[Len(log)].status = "error"

\* C6: for every flow and every step name X present in it, run_flow with
\* step=X executes exactly one step, the step named X.
C6_StepSelectsOneStep ==
    (pc = "done" /\ call.sel.step # NoName) =>
        /\ Count(1, "call") = 1
        /\ \A p \in 2..MaxSteps : Count(p, "call") = 0
        /\ steps[1].treatment = call.sel.step

\* position(A): the first declared position of the step named n.
FirstPos(n) == CHOOSE k \in 1..Len(flow) :
                  flow[k].treatment = n /\ \A j \in 1..(k - 1) : flow[j].treatment # n
RangeLo == IF call.sel.from_step = NoName THEN 1 ELSE FirstPos(call.sel.from_step)
RangeHi == IF call.sel.to_step = NoName THEN Len(flow) ELSE FirstPos(call.sel.to_step)
CallEvents == {k \in DOMAIN hist : hist[k].ev = "call"}

\* C7: run_flow with fromStep=A and/or toStep=B executes exactly the steps
\* whose declared position lies in [position(A), position(B)] (an absent
\* bound meaning the first / last declared step), in declared order, and no
\* step outside that range.
C7_RangeSelectsInclusiveRange ==
    (call.sel.step = NoName /\ pc \notin {"idle", "raised"}) =>
        /\ \A k \in CallEvents :
              /\ RangeLo + hist[k].pos - 1 <= RangeHi
              /\ steps[hist[k].pos] = flow[RangeLo + hist[k].pos - 1]
              /\ hist[k].pos = Cardinality({j \in CallEvents : j <= k})
        /\ pc = "done" =>
              Cardinality(CallEvents) = IF RangeHi >= RangeLo THEN RangeHi - RangeLo + 1 ELSE 0

\* A range that ends before the last declared step ran to completion, and a
\* range that starts after the first one did.
C7_Witness ==
    /\ pc = "done"
    /\ Cardinality(CallEvents) >= 1
    /\ Cardinality(CallEvents) < Len(flow)
    /\ \/ call.sel.to_step # NoName /\ RangeHi < Len(flow)
       \/ call.sel.from_step # NoName /\ RangeLo > 1

\* C8: run_treatment in replace mode with a window deletes, before the plugin
\* is invoked, exactly the output files whose filename date lies in
\* [from.date, to.date] (a missing bound is open); output files dated outside
\* the range or without a date are left untouched.
C8_ScopedReplaceDeletesWindowOnly ==
    (BeforeInvoke /\ output_mode = "replace" /\ has_window) =>
        /\ \A f \in FilesUnder(fs_rt[OutputDir(cur)]) :
              (f \notin FilesUnder(fs[OutputDir(cur)])) <=>
                  /\ extract_date_from_filename(f) # NoDate
                  /\ time_from # None => extract_date_from_filename(f) >= date(time_from)
                  /\ time_to # None => extract_date_from_filename(f) <= date(time_to)
        /\ FilesUnder(fs[OutputDir(cur)]) \subseteq FilesUnder(fs_rt[OutputDir(cur)])
        /\ \A d \in Dirs \ {OutputDir(cur)} : fs[d] = fs_rt[d]

\* The plugin is about to run after a scoped replace that removed a file of
\* the window and kept an earlier file, a later file being kept or absent,
\* and a file without a date.
C8_Witness ==
    /\ pc = "invoke"
    /\ call.output_mode = "replace"
    /\ time_from # None /\ time_to # None
    /\ \E f \in FilesUnder(fs_rt[OutputDir(cur)]) : f \notin FilesUnder(fs[OutputDir(cur)])
    /\ \E f \in FilesUnder(fs[OutputDir(cur)]) : extract_date_from_filename(f) = NoDate
    /\ \E f \in FilesUnder(fs[OutputDir(cur)]) : extract_date_from_filename(f) # NoDate

\* C9: run_treatment in replace mode with no window deletes every file under
\* the output tree before the plugin is invoked, so the plugin starts with an
\* output tree that holds no file.
C9_ReplaceWithoutWindowEmptiesOutput ==
    (BeforeInvoke /\ output_mode = "replace" /\ ~has_window) =>
        /\ fs[OutputDir(cur)] = Dir({})
        /\ \A d \in Dirs \ {OutputDir(cur)} : fs[d] = fs_rt[d]

\* The plugin is about to run in replace mode without a window over an
\* output directory that held dated and undated files.
C9_Witness ==
    /\ pc = "invoke"
    /\ call.output_mode = "replace"
    /\ ~has_window
    /\ fs_rt[OutputDir(cur)] = Dir(Files)
    /\ fs[OutputDir(cur)] = Dir({})

\* C10: run_flow with full-replace wipes every file of the output tree of
\* every step that declares an output, once and before any step is executed,
\* and then runs each step as replace with no window: each step's own
\* reconcile deletes all of that step's existing output files, not only those
\* dated inside a window, even when a window is in effect.
C10_FullReplaceRunsStepsWithoutWindow ==
    call.output_mode = "full-replace" =>
        /\ (pc = "loop" /\ i = 1) =>
              \A k \in 1..Len(steps) :
                  steps[k].output # NoOutput => FilesUnder(fs[steps[k].output]) = {}
        /\ Count(0, "wipe") <= 1
        /\ (BeforeInvoke /\ cur.output # NoOutput) => FilesUnder(fs[cur.output]) = {}

\* Control is in run_treatment and the plugin has not been called.
BeforePlugin == pc \in {"validate", "prepare", "view", "load", "start", "invoke"}

\* The step whose run_treatment call was the latest to end.
LastRun == IF pc \in {"loop", "done"} THEN i - 1 ELSE i

\* d is the day of a file name and lies in the date range of the window.
InWindow(d) ==
    /\ d # NoDate
    /\ time_from # None => d >= date(time_from)
    /\ time_to # None => d <= date(time_to)

\* C11: in append mode the engine deletes or truncates no output file: from
\* the start of run_treatment until the plugin is invoked the set of files
\* under the output directory is unchanged, the only change being that a
\* missing output directory is created.
C11_AppendDeletesNothing ==
    output_mode = "append" =>
        /\ (BeforePlugin \/ (pc = "failed" /\ ~HistHas(i, "invoke"))) =>
              /\ FilesUnder(fs[OutputDir(cur)]) = FilesUnder(fs_rt[OutputDir(cur)])
              /\ \/ fs[OutputDir(cur)] = fs_rt[OutputDir(cur)]
                 \/ fs_rt[OutputDir(cur)] = Absent /\ fs[OutputDir(cur)] = Dir({})
              /\ \A d \in Dirs \ {OutputDir(cur)} : fs[d] = fs_rt[d]
        /\ (pc \in {"loop", "done"} /\ i > 1 /\ HistHas(i - 1, "skip")) =>
              FilesUnder(fs[OutputDir(steps[i - 1])])
                  = FilesUnder(fs_rt[OutputDir(steps[i - 1])])

\* The plugin is about to run in append mode with a window, over an output
\* directory that holds a file dated inside the window.
C11_Witness ==
    /\ pc = "invoke"
    /\ output_mode = "append"
    /\ has_window
    /\ \E f \in FilesUnder(fs[OutputDir(cur)]) : InWindow(extract_date_from_filename(f))

C13_PluginReadsFilteredView ==
    has_window =>
        /\ pc = "invoke" =>
              /\ effective_input.dir = NoName
              /\ effective_input.view \in tmpdirs
              /\ effective_input.view.links =
                    {f \in FilesUnder(fs[cur.input]) :
                        /\ f.ext \in {"csv", "parquet"}
                        /\ InWindow(extract_date_from_filename(f))}
              /\ fs[cur.input] = fs_rt[cur.input]
        /\ (pc \in {"loop", "done", "failed"} /\ plugin_call.pos # 0
                /\ plugin_call.pos = LastRun) =>
              /\ plugin_call.input.dir = NoName
              /\ plugin_call.input.view.owner = plugin_call.pos
              /\ plugin_call.input.view.links =
                    {f \in FilesUnder(fs_rt[steps[plugin_call.pos].input]) :
                        /\ f.ext \in {"csv", "parquet"}
                        /\ InWindow(extract_date_from_filename(f))}

\* A plugin ran over a view that links a .csv file of the window and leaves
\* out a .csv file dated outside it and a .txt file dated inside it.
C13_Witness ==
    /\ pc = "loop"
    /\ has_window
    /\ plugin_call.pos = i - 1
    /\ plugin_call.pos # 0
    /\ plugin_call.input.view.links # {}
    /\ \E f \in FilesUnder(fs_rt[steps[plugin_call.pos].input]) :
          /\ f.ext = "txt"
          /\ InWindow(extract_date_from_filename(f))
          /\ f \notin plugin_call.input.view.links
    /\ \E f \in FilesUnder(fs_rt[steps[plugin_call.pos].input]) :
          /\ f.ext = "csv"
          /\ extract_date_from_filename(f) # NoDate
          /\ f \notin plugin_call.input.view.links

\* The files of a list, with their positions.
Occurrences(files, f) == Cardinality({k \in DOMAIN files : files[k] = f})

\* The day a file name carries: its first date-shaped part when that part is
\* a calendar day.
NameDay(f) ==
    LET shaped == {k \in DOMAIN f.parts : f.parts[k] # NoDate}
    IN  IF shaped = {} THEN NoDate
        ELSE LET k == CHOOSE j \in shaped : \A m \in shaped : j <= m
             IN  IF f.parts[k] >= 1 THEN f.parts[k] ELSE NoDate

\* C14: filter_files_by_date_range keeps a file if and only if its name
\* carries a date d with from.date <= d <= to.date, an absent bound being
\* open; a file without a date is dropped for every window; the kept files
\* are in the order of the input.
C14_FilterKeepsDatedFilesInRange ==
    (fn_in.fn = "filter_files_by_date_range" /\ fn_out # NoFn) =>
        /\ fn_out.result.raised = "none"
        /\ IsSubsequence(fn_out.result.value, fn_in.files)
        /\ \A k \in DOMAIN fn_in.files :
              LET f == fn_in.files[k]
                  d == NameDay(f)
                  keep == /\ d # NoDate
                          /\ fn_in.time_from # None => d >= date(fn_in.time_from)
                          /\ fn_in.time_to # None => d <= date(fn_in.time_to)
              IN  Occurrences(fn_out.result.value, f)
                      = IF keep THEN Occurrences(fn_in.files, f) ELSE 0

\* The same statement over the lists in which no name has a date-shaped part
\* that is no calendar day.
C14_OverCalendarNames ==
    (\A k \in DOMAIN fn_in.files : BadDate \notin {fn_in.files[k].parts[j] :
                                                     j \in DOMAIN fn_in.files[k].parts})
        => C14_FilterKeepsDatedFilesInRange

\* The mapping run_treatment hands to merge_params.
ProvidedToMerge == effective_params(params, time_from, time_to)
Declared == {schema[k] : k \in DOMAIN schema}

\* merge_params returned, or raised.
MergeReturned == pc = "prepare" \/ HistHas(i, "reconcile")
MergeErrors == {"MissingRequiredParam", "TypeMismatch", "UnknownParams"}
MergeRaised == pc = "failed" /\ err \in MergeErrors

\* The value a declared parameter resolves to: the provided one, else the
\* default; no value when neither exists.
HasValue(d) == d.name \in DOMAIN ProvidedToMerge \/ d.default # Null
ValueOf(d) ==
    IF d.name \in DOMAIN ProvidedToMerge THEN ProvidedToMerge[d.name] ELSE d.default

\* C15: for every declared parameter merge_params gives the provided value
\* when the name is provided, else the non-null schema default, else it fails
\* MissingRequiredParam; the plugin receives exactly the merged values.
C15_ProvidedThenDefaultThenMissing ==
    /\ MergeReturned =>
          \A d \in Declared :
              /\ HasValue(d)
              /\ d.name \in DOMAIN merged
              /\ merged[d.name] = ValueOf(d)
    /\ (MergeReturned \/ MergeRaised) =>
          /\ (\E d \in Declared : ~HasValue(d)) => MergeRaised
          /\ err = "MissingRequiredParam" => \E d \in Declared : ~HasValue(d)
          /\ (/\ \E d \in Declared : ~HasValue(d)
              /\ \A d \in Declared : HasValue(d) => ValueOf(d).kind = d.type)
                => err = "MissingRequiredParam"
    /\ plugin_call.pos # 0 =>
          /\ plugin_call.params = merged
          /\ \A d \in Declared : plugin_call.params[d.name] = ValueOf(d)

\* A plugin ran with two declared parameters that both have a default: one
\* was provided with another value, the other was left out.
C15_Witness ==
    /\ plugin_call.pos # 0
    /\ \E d \in Declared :
          /\ d.default # Null
          /\ d.name \in DOMAIN params
          /\ params[d.name] # d.default
          /\ plugin_call.params[d.name] = params[d.name]
    /\ \E d \in Declared :
          /\ d.default # Null
          /\ d.name \notin DOMAIN params
          /\ plugin_call.params[d.name] = d.default

\* The keys of the provided mapping that the schema does not declare and
\* that do not carry the reserved prefix.
UnknownKeys ==
    {k \in DOMAIN ProvidedToMerge :
        k \notin {d.name : d \in Declared} /\ ~startswith_reserved(k)}

\* C16: merge_params fails with UnknownParams if and only if the provided
\* mapping holds a key that is neither declared nor reserved, for every
\* schema and every mapping, a declared parameter being missing or ill-typed
\* or not.
C16_UnknownParamsIffUndeclaredKey ==
    (MergeReturned \/ MergeRaised) =>
        ((pc = "failed" /\ err = "UnknownParams") <=> UnknownKeys # {})

\* C17: merge_params accepts a value only when its kind is exactly the
\* declared one; a bool is not accepted for int, nor an int for float; any
\* other kind fails TypeMismatch.
C17_ExactKindMatch ==
    /\ MergeReturned => \A d \in Declared : merged[d.name].kind = d.type
    /\ (pc = "failed" /\ err = "TypeMismatch") =>
          \E d \in Declared : HasValue(d) /\ ValueOf(d).kind # d.type

\* __time_range as the Runner builds it from the bounds it was given.
TimeRangeEntry ==
    Val("dict", [from |-> IF time_from # None THEN isoformat(time_from) ELSE Null,
                 to |-> IF time_to # None THEN isoformat(time_to) ELSE Null])

\* The reserved keys pass through merge_params; under a window
\* __time_range carries the bounds, without one the Runner adds no key.
ReservedPassThrough ==
    MergeReturned =>
        /\ \A k \in DOMAIN params :
              (startswith_reserved(k) /\ ~(k = "__time_range" /\ has_window)) =>
                  k \in DOMAIN merged /\ merged[k] = params[k]
        /\ has_window =>
              /\ "__time_range" \in DOMAIN merged
              /\ merged["__time_range"] = TimeRangeEntry
        /\ ~has_window =>
              {k \in DOMAIN merged : startswith_reserved(k)} \subseteq DOMAIN params
        /\ plugin_call.pos # 0 => plugin_call.params = merged

\* C18: every provided key with the reserved prefix is in the merged
\* parameters with its provided value and is neither type-checked nor
\* reported as unknown; under a window the plugin's parameters hold
\* __time_range with the supplied bounds, and without a window the Runner
\* adds no reserved key.
C18_ReservedKeysBypassSchema ==
    /\ ReservedPassThrough
    /\ (/\ MergeReturned \/ MergeRaised
        /\ UnknownKeys = {}
        /\ \A d \in Declared :
              ~startswith_reserved(d.name) => HasValue(d) /\ ValueOf(d).kind = d.type
        /\ \A d \in Declared :
              startswith_reserved(d.name) => d.name \in DOMAIN ProvidedToMerge)
          => MergeReturned

\* The same statement over the schemas that declare no reserved name.
C18_OverPlainSchemas ==
    (\A d \in Declared : ~startswith_reserved(d.name)) => C18_ReservedKeysBypassSchema

\* resolve_last_range was called and has answered.
Resolved == fn_in.fn = "resolve_last_range" /\ fn_out # NoFn

\* The timestamp values and the filename days a directory holds.
StampsIn(tree) == {f.ts : f \in {g \in FilesUnder(tree) : g.ext = "parquet"}} \ {NoTs}
NameDaysIn(tree) == {NameDay(f) : f \in FilesUnder(tree)} \ {NoDate}
HoldsTimestamp(tree) == StampsIn(tree) # {} \/ NameDaysIn(tree) # {}

\* lastTimestamp: the largest timestamp value, else 23:59:59 of the latest
\* filename day.
LastTimestamp(tree) ==
    IF StampsIn(tree) # {}
    THEN CHOOSE t \in StampsIn(tree) : \A u \in StampsIn(tree) : u <= t
    ELSE LET d == CHOOSE x \in NameDaysIn(tree) : \A y \in NameDaysIn(tree) : y <= x
         IN  d * SecPerDay - 1

C20_OutputNotBehindIsUpToDate ==
    (/\ Resolved
     /\ HoldsTimestamp(fn_in.output_dir)
     /\ HoldsTimestamp(fn_in.input_dir)
     /\ LastTimestamp(fn_in.output_dir) >= LastTimestamp(fn_in.input_dir))
        => fn_out.result.status = "uptodate"

\* resolve_last_range failed AlreadyUpToDate over parquet files whose largest
\* timestamps are equal.
C20_Witness ==
    /\ Resolved
    /\ StampsIn(fn_in.output_dir) # {}
    /\ StampsIn(fn_in.input_dir) # {}
    /\ LastTimestamp(fn_in.output_dir) = LastTimestamp(fn_in.input_dir)
    /\ fn_out.result.status = "uptodate"

\* resolve_last_range returned a range with both bounds.
BoundedRange ==
    /\ Resolved
    /\ fn_out.result.status = "range"
    /\ fn_out.result.from # None
    /\ fn_out.result.to # None

\* An instant with its minutes and seconds cut off.
HourOf(t) == (t \div SecPerHour) * SecPerHour

\* C21: every range with both bounds that resolve_last_range returns has
\* to = lastTimestamp(input) and from = lastTimestamp(output) floored to the
\* hour when that leaves at least one hour, else from = to - 1 hour; so
\* to - from is never under one hour and is exactly one hour whenever the
\* floored span would have been shorter.
C21_RangeIsFlooredWithMinimumHour ==
    BoundedRange =>
        LET from == fn_out.result.from
            to == fn_out.result.to
            floored == HourOf(LastTimestamp(fn_in.output_dir))
        IN  /\ HoldsTimestamp(fn_in.input_dir) /\ HoldsTimestamp(fn_in.output_dir)
            /\ to = LastTimestamp(fn_in.input_dir)
            /\ to - floored >= SecPerHour => from = floored
            /\ to - floored < SecPerHour => from = to - SecPerHour
            /\ to - from >= SecPerHour

\* resolve_last_range returned a range of exactly one hour for an output
\* whose last timestamp is less than an hour before the input's.
C21_Witness ==
    /\ BoundedRange
    /\ fn_out.result.to - HourOf(LastTimestamp(fn_in.output_dir)) < SecPerHour
    /\ fn_out.result.to - fn_out.result.from = SecPerHour
    /\ fn_out.result.from < HourOf(LastTimestamp(fn_in.output_dir))

\* A directory holds a columnar file.
HoldsColumnar(tree) == \E f \in FilesUnder(tree) : f.ext = "parquet"
LastNameDay(tree) == CHOOSE x \in NameDaysIn(tree) : \A y \in NameDaysIn(tree) : y <= x

\* C26: resolve_last_range compares filename dates only when neither
\* directory holds a columnar file; whenever one of them does, it fails
\* AlreadyUpToDate if and only if lastTimestamp(output) >=
\* lastTimestamp(input), and otherwise returns a range.
C26_DateComparisonOnlyWithoutColumnar ==
    (Resolved /\ HoldsTimestamp(fn_in.input_dir) /\ HoldsTimestamp(fn_in.output_dir)) =>
        IF HoldsColumnar(fn_in.input_dir) \/ HoldsColumnar(fn_in.output_dir)
        THEN fn_out.result.status = "uptodate"
                <=> LastTimestamp(fn_in.output_dir) >= LastTimestamp(fn_in.input_dir)
        ELSE fn_out.result.status = "uptodate"
                <=> LastNameDay(fn_in.output_dir) >= LastNameDay(fn_in.input_dir)

\* C28: every range with bounds that resolve_last_range returns satisfies
\* from <= lastTimestamp(output) < to = lastTimestamp(input).
C28_RangeCoversOutputToInput ==
    BoundedRange =>
        /\ fn_out.result.from <= LastTimestamp(fn_in.output_dir)
        /\ LastTimestamp(fn_in.output_dir) < fn_out.result.to
        /\ fn_out.result.to = LastTimestamp(fn_in.input_dir)

\* resolve_last_range returned a range that starts at the hour of an output
\* timestamp lying inside that hour.
C28_Witness ==
    /\ BoundedRange
    /\ StampsIn(fn_in.output_dir) # {}
    /\ fn_out.result.from = HourOf(LastTimestamp(fn_in.output_dir))
    /\ fn_out.result.from < LastTimestamp(fn_in.output_dir)
    /\ fn_out.result.to - fn_out.result.from > SecPerHour

\* The directories as the --last resolution of this run_flow call saw them.
SeenByResolver ==
    IF call.output_mode = "full-replace" THEN full_replace_wipe(fs0, steps) ELSE fs0

\* run_flow went past the resolution of --last.
LastResolved == call.last /\ pc \notin {"idle", "raised"}

\* The events of the steps in hist (the flow-level wipe left out).
StepEvents == {k \in DOMAIN hist : hist[k].pos > 0}

\* C22: with --last, run_flow resolves the window once, from the input and
\* output of the first selected step only, and every selected step is run
\* with that window; when the resolver reports AlreadyUpToDate, run_flow
\* returns without failure and without reconciling, invoking or logging
\* any step.
C22_LastResolvedOnceFromFirstStep ==
    LastResolved =>
        LET seen == SeenByResolver
            r == resolve_last_range(seen[steps[1].input], seen[steps[1].output])
        IN  IF pc = "uptodate"
            THEN /\ r.status = "uptodate"
                 /\ err = NoError
                 /\ StepEvents = {}
                 /\ log = <<>>
                 /\ plugin_call = NoCall
                 /\ fs = seen
            ELSE /\ r.status = "range"
                 /\ time_from = r.from
                 /\ time_to = r.to

\* A flow of two steps ran to its end under --last with a bounded window
\* that the second step's directories would not have given.
C22_Witness ==
    /\ call.last
    /\ pc = "done"
    /\ Len(steps) = 2
    /\ time_from # None
    /\ HistHas(1, "call") /\ HistHas(2, "call")
    /\ resolve_last_range(fs0[steps[2].input], fs0[steps[2].output])
          # resolve_last_range(fs0[steps[1].input], fs0[steps[1].output])

\* C30: in run_flow with full-replace and --last the wipe comes before the
\* resolution, so the resolver finds no file under the first selected step's
\* output: the window is (none, none), the flow is never AlreadyUpToDate,
\* and every selected step runs over its whole input without a view.
C30_FullReplaceLastRunsEverything ==
    (LastResolved /\ call.output_mode = "full-replace") =>
        /\ hist # <<>> /\ hist[1] = Event(0, "wipe")
        /\ FilesUnder(SeenByResolver[steps[1].output]) = {}
        /\ pc # "uptodate"
        /\ time_from = None /\ time_to = None
        /\ \A k \in StepEvents : hist[k].ev \notin {"view", "skip"}
        /\ plugin_call # NoCall =>
              /\ plugin_call.input.view = NoView
              /\ plugin_call.input.dir = steps[plugin_call.pos].input
        /\ pc = "done" => \A k \in 1..Len(steps) : HistHas(k, "invoke")

\* Two steps ran to their end under full-replace and --last, from
\* directories that were up to date before the wipe.
C30_Witness ==
    /\ call.last /\ call.output_mode = "full-replace"
    /\ pc = "done"
    /\ Len(steps) = 2
    /\ resolve_last_range(fs0[steps[1].input], fs0[steps[1].output]).status = "uptodate"
    /\ HistHas(1, "invoke") /\ HistHas(2, "invoke")

\* C27: in replace mode with a window the output is reconciled before the
\* view is built and tested: when the view is about to be built no output
\* file dated in the window is left, and a run that ended in skip has
\* deleted every such file without invoking the plugin.
C27_ReconcileBeforeView ==
    (output_mode = "replace" /\ has_window) =>
        /\ pc = "view" =>
              /\ HistHas(i, "reconcile")
              /\ ~HistHas(i, "view")
              /\ \A f \in FilesUnder(fs[OutputDir(cur)]) : ~InWindow(NameDay(f))
        /\ (pc \in {"loop", "done"} /\ i > 1 /\ HistHas(i - 1, "skip")) =>
              /\ ~HistHas(i - 1, "invoke")
              /\ \A f \in FilesUnder(fs[OutputDir(steps[i - 1])]) : ~InWindow(NameDay(f))

\* A replace run with a window ended in skip after it deleted an output file
\* dated in the window.
C27_Witness ==
    /\ output_mode = "replace" /\ has_window
    /\ pc = "loop" /\ i > 1
    /\ HistHas(i - 1, "skip")
    /\ \E f \in FilesUnder(fs_rt[OutputDir(steps[i - 1])]) :
          /\ InWindow(NameDay(f))
          /\ f \notin FilesUnder(fs[OutputDir(steps[i - 1])])

\* The log records that the steps before position p wrote.
LoggedBefore(p) ==
    Cardinality({k \in DOMAIN hist :
                    /\ hist[k].pos > 0 /\ hist[k].pos < p
                    /\ hist[k].ev \in {"start", "success", "skip"}})

C29_NoRecordBeforeInvocation ==
    /\ (pc = "failed" /\ ~HistHas(i, "invoke")) =>
          /\ err \in RunnerValidationErrors \cup {"ModuleLoadError", "LogWriteError"}
          /\ Len(log) = LoggedBefore(i)
    /\ \A k \in DOMAIN log :
          log[k].status \in {"success", "error"} =>
              /\ k > 1
              /\ log[k - 1].status = "start"
              /\ log[k - 1].treatment = log[k].treatment

\* The second step failed to load its module after the first step wrote its
\* two records.
C29_Witness ==
    /\ pc = "failed" /\ err = "ModuleLoadError"
    /\ i = 2
    /\ Len(log) = 2
    /\ log[2].status = "success"

\* main called run_flow, which reached its loop over the steps.
FlowRuns == fn_out # NoFn /\ fn_out.fn = "main" /\ fn_out.result.status = "run"

\* C23: every window that run_flow hands to run_treatment has from <= to when
\* both bounds are present, a window made of one bound of the caller and one
\* bound of the flow included (under --last the window is the resolver's,
\* which C21 bounds).
C23_WindowIsOrdered ==
    (FlowRuns /\ ~fn_out.result.last
       /\ fn_out.result.time_from # None /\ fn_out.result.time_to # None) =>
        fn_out.result.time_from <= fn_out.result.time_to

\* C24: the params of every step are the flow's params without from and to,
\* overridden key by key by the step's own params: a key is present exactly
\* when the step or the flow's params (from and to left out) hold it, with
\* the step's value when the step holds it; so no other step's params and no
\* flow-level from or to appear among them.
C24_StepParamsAreFlowParamsOverridden ==
    FlowRuns =>
        LET doc == fn_in.flow
            passed == fn_out.result.params
        IN  /\ Len(passed) = Len(doc.steps)
            /\ \A k \in 1..Len(doc.steps) :
                  LET own == doc.steps[k]
                  IN  /\ DOMAIN passed[k] =
                            DOMAIN own \cup (DOMAIN doc.params \ {"from", "to"})
                      /\ \A j \in DOMAIN passed[k] :
                            passed[k][j] = IF j \in DOMAIN own THEN own[j]
                                           ELSE doc.params[j]
                      /\ \A j \in {"from", "to"} \cap DOMAIN passed[k] :
                            j \in DOMAIN own /\ passed[k][j] = own[j]

\* A flow that declares from (in params), to (at top level) and x runs two
\* steps: the first overrides x, the second does not.
C24_Witness ==
    /\ FlowRuns
    /\ Len(fn_in.flow.steps) = 2
    /\ "from" \in DOMAIN fn_in.flow.params
    /\ "to" \in DOMAIN fn_in.flow.top
    /\ "x" \in DOMAIN fn_in.flow.params
    /\ DOMAIN fn_in.flow.steps[1] = {"x"}
    /\ fn_in.flow.steps[2] = EmptyDict
    /\ fn_out.result.params[1]["x"] = Val("int", 2)
    /\ DOMAIN fn_out.result.params[2] = {"x"}
    /\ fn_out.result.params[2]["x"] = Val("int", 1)
====
